---- MODULE Spec2Model ----
(***************************************************************************)
(* Model of main() in main.go: the ordered initialisation of the           *)
(* subsystems with deferred clean-up, the goroutine running                *)
(* srv.ListenAndServe, the wait on the quit channel and the shutdown with  *)
(* a five second context.                                                  *)
(***************************************************************************)
EXTENDS Integers, Sequences, FiniteSets, TLC

\* ---------------------------------------------------------------- bounds
MaxClock == 6
MaxInflight == 2
MaxSignals == 2

\* ------------------------------------------------------- program constants
\* 5*time.Second in context.WithTimeout
ShutdownTimeout == 5
\* make(chan os.Signal, 1)
QuitCap == 1

\* the init calls of main, in program order
Steps == <<"settings", "logger", "mysql", "redis", "mongodb", "snowflake", "validator">>
NumSteps == Len(Steps)

\* the steps followed by a defer statement (zap.L().Sync, mysql.Close,
\* redis.Close, mongodb.Close)
HasRollback(i) == Steps[i] \in {"logger", "mysql", "redis", "mongodb"}

\* signals the environment can send; SIGKILL is left out, as in the comments
Signals == {"SIGINT", "SIGTERM", "SIGHUP"}
\* variant: every signal is registered
NotifySetAll == Signals

\* signal.Notify(quit, syscall.SIGINT, syscall.SIGTERM)
NotifySet == {"SIGINT", "SIGTERM"}

VARIABLES
    pc,           \* position of main
    step,         \* index of the next init step
    ok,           \* init steps whose action returned nil
    attempts,     \* how often each init action has been called
    failedStep,   \* the init step that returned an error, 0 when none
    deferred,     \* the defer stack of main, last pushed at the end
    rollbackLog,  \* the deferred clean-ups executed so far, in order
    ctxCancelled, \* the deferred cancel() has run
    routesBuilt,  \* routes.Setup has been called
    gpc,          \* position of the goroutine running ListenAndServe
    srvErr,       \* what ListenAndServe returned
    serveCalls,   \* number of calls of srv.ListenAndServe
    inShutdown,   \* the server's shutting-down flag, set by srv.Shutdown
    inflight,     \* requests being handled
    reqFailed,    \* some request ended with a request-level error
    notified,     \* signal.Notify has been called
    quit,         \* contents of the quit channel
    sigLog,       \* signals delivered to the process so far, in order
    received,     \* signals read from quit by main, in order
    blocked,      \* main has blocked on the empty quit channel
    clock,        \* time, in seconds
    receivedAt,   \* time at which main read from quit, -1 before
    deadline,     \* deadline of the shutdown context, -1 before
    stopCalls,    \* number of calls of srv.Shutdown
    gpcAtStop,    \* position of the goroutine when srv.Shutdown was called
    shutdownErr,  \* what srv.Shutdown returned
    logs,         \* log lines written, as <<severity, message>>
    exitKind,     \* how the process ended, "none" while it runs
    exitCode      \* exit status, -1 while it runs

vars == <<pc, step, ok, attempts, failedStep, deferred, rollbackLog, ctxCancelled,
          routesBuilt, gpc, srvErr, serveCalls, inShutdown, inflight, reqFailed, notified, quit,
          sigLog, received, blocked, clock, receivedAt, deadline, stopCalls, gpcAtStop,
          shutdownErr, logs, exitKind, exitCode>>

mainVars == <<pc, step, ok, attempts, failedStep, deferred, rollbackLog, ctxCancelled,
              routesBuilt, receivedAt, deadline, stopCalls, gpcAtStop, shutdownErr>>
srvVars == <<gpc, srvErr, serveCalls, inShutdown, inflight, reqFailed>>
sigVars == <<notified, quit, sigLog, received, blocked>>
exitVars == <<exitKind, exitCode>>

Alive == exitKind = "none"

\* ---------------------------------------------------------------- helpers
\* variant: the return after a failed snowflake.Init is missing
NextPcSkip(k, err) ==
    IF err /\ Steps[k] # "snowflake" THEN "unwinding"
    ELSE IF k = NumSteps THEN "setup" ELSE "init"

\* variant: a failed step does not return, main carries on
NextPcContinue(k, err) == IF k = NumSteps THEN "setup" ELSE "init"

\* the position of main after init step k returned err: every failure
\* returns from main, the last success goes on to routes.Setup
NextPc(k, err) == IF err THEN "unwinding" ELSE IF k = NumSteps THEN "setup" ELSE "init"

\* the defer statement after a successful init step
PushDeferred(stack, k) == IF HasRollback(k) THEN Append(stack, Steps[k]) ELSE stack

\* variant: clean-ups run in the order of registration
NextDeferredFifo(stack) == 1

\* deferred calls run last-in first-out
NextDeferred(stack) == Len(stack)

\* variant: the comparison with http.ErrServerClosed is missing
IsFatalServeErrAny(err) == err # "nil"

\* err != nil && err != http.ErrServerClosed
IsFatalServeErr(err) == err # "nil" /\ err # "ErrServerClosed"

\* variant: the result of srv.Shutdown is always taken as a failure
ShutdownFailedAlways(err) == TRUE

\* variant: the result of srv.Shutdown is ignored
ShutdownFailedNever(err) == FALSE

\* err != nil after srv.Shutdown
ShutdownFailed(err) == err # "nil"

\* context.WithTimeout(context.Background(), 5*time.Second)
CtxDeadline(now) == now + ShutdownTimeout

\* variant: main always goes back to wait on quit
PcAfterShutdownWait(q) == "wait"

\* variant: main waits on quit again when another signal is pending
PcAfterShutdownLoop(q) == IF q # <<>> THEN "wait" ELSE "unwinding"

\* where main goes after srv.Shutdown returned nil: it logs and returns
PcAfterShutdown(q) == "unwinding"

\* variant: quit is made without a buffer, a send needs a waiting receiver
CanSendUnbuffered(q, waiting) == waiting /\ q = <<>>

\* the non-blocking send of the signal package on quit succeeds while the
\* buffer of make(chan os.Signal, 1) has room, whether or not main waits
CanSend(q, waiting) == Len(q) < QuitCap

\* ------------------------------------------------------------------- Init
\* variant: signal.Notify is called first thing in main
InitEarlyNotify ==
    /\ pc = "init"
    /\ step = 1
    /\ ok = {}
    /\ attempts = [i \in 1..NumSteps |-> 0]
    /\ failedStep = 0
    /\ deferred = <<>>
    /\ rollbackLog = <<>>
    /\ ctxCancelled = FALSE
    /\ routesBuilt = FALSE
    /\ gpc = "none"
    /\ srvErr = "none"
    /\ serveCalls = 0
    /\ inShutdown = FALSE
    /\ inflight = 0
    /\ reqFailed = FALSE
    /\ notified = TRUE
    /\ quit = <<>>
    /\ sigLog = <<>>
    /\ received = <<>>
    /\ blocked = FALSE
    /\ clock = 0
    /\ receivedAt = -1
    /\ deadline = -1
    /\ stopCalls = 0
    /\ gpcAtStop = "none"
    /\ shutdownErr = "none"
    /\ logs = {}
    /\ exitKind = "none"
    /\ exitCode = -1

\* the state at the entry of main
Init ==
    /\ pc = "init"
    /\ step = 1
    /\ ok = {}
    /\ attempts = [i \in 1..NumSteps |-> 0]
    /\ failedStep = 0
    /\ deferred = <<>>
    /\ rollbackLog = <<>>
    /\ ctxCancelled = FALSE
    /\ routesBuilt = FALSE
    /\ gpc = "none"
    /\ srvErr = "none"
    /\ serveCalls = 0
    /\ inShutdown = FALSE
    /\ inflight = 0
    /\ reqFailed = FALSE
    /\ notified = FALSE
    /\ quit = <<>>
    /\ sigLog = <<>>
    /\ received = <<>>
    /\ blocked = FALSE
    /\ clock = 0
    /\ receivedAt = -1
    /\ deadline = -1
    /\ stopCalls = 0
    /\ gpcAtStop = "none"
    /\ shutdownErr = "none"
    /\ logs = {}
    /\ exitKind = "none"
    /\ exitCode = -1

\* ------------------------------------------------------------ main: init
\* init step k returns nil; the defer after it is pushed
InitOk ==
    /\ Alive /\ pc = "init"
    /\ attempts' = [attempts EXCEPT ![step] = @ + 1]
    /\ ok' = ok \cup {step}
    /\ deferred' = PushDeferred(deferred, step)
    /\ logs' = IF Steps[step] = "logger"
               THEN logs \cup {<<"debug", "logger init success">>} ELSE logs
    /\ pc' = NextPc(step, FALSE)
    /\ step' = step + 1
    /\ UNCHANGED <<failedStep, rollbackLog, ctxCancelled, routesBuilt, receivedAt,
                   deadline, stopCalls, gpcAtStop, shutdownErr, clock>>
    /\ UNCHANGED <<srvVars, sigVars, exitVars>>

\* init step k returns an error: fmt.Printf and return
InitFail ==
    /\ Alive /\ pc = "init"
    /\ attempts' = [attempts EXCEPT ![step] = @ + 1]
    /\ failedStep' = step
    /\ logs' = logs \cup {<<"print", Steps[step]>>}
    /\ pc' = NextPc(step, TRUE)
    /\ step' = IF NextPc(step, TRUE) = "unwinding" THEN step ELSE step + 1
    /\ UNCHANGED <<ok, deferred, rollbackLog, ctxCancelled, routesBuilt, receivedAt,
                   deadline, stopCalls, gpcAtStop, shutdownErr, clock>>
    /\ UNCHANGED <<srvVars, sigVars, exitVars>>

\* r := routes.Setup(...); srv := &http.Server{...}
RoutesSetup ==
    /\ Alive /\ pc = "setup"
    /\ routesBuilt' = TRUE
    /\ pc' = "spawn"
    /\ UNCHANGED <<step, ok, attempts, failedStep, deferred, rollbackLog, ctxCancelled,
                   receivedAt, deadline, stopCalls, gpcAtStop, shutdownErr, clock, logs>>
    /\ UNCHANGED <<srvVars, sigVars, exitVars>>

\* go func() { ... }()
Spawn ==
    /\ Alive /\ pc = "spawn"
    /\ gpc' = "spawned"
    /\ pc' = "notify"
    /\ UNCHANGED <<step, ok, attempts, failedStep, deferred, rollbackLog, ctxCancelled,
                   routesBuilt, receivedAt, deadline, stopCalls, gpcAtStop, shutdownErr, clock, logs>>
    /\ UNCHANGED <<srvErr, serveCalls, inShutdown, inflight, reqFailed>>
    /\ UNCHANGED <<sigVars, exitVars>>

\* quit := make(chan os.Signal, 1); signal.Notify(quit, SIGINT, SIGTERM)
Notify ==
    /\ Alive /\ pc = "notify"
    /\ notified' = TRUE
    /\ pc' = "wait"
    /\ UNCHANGED <<step, ok, attempts, failedStep, deferred, rollbackLog, ctxCancelled,
                   routesBuilt, receivedAt, deadline, stopCalls, gpcAtStop, shutdownErr, clock, logs>>
    /\ UNCHANGED <<quit, sigLog, received, blocked>>
    /\ UNCHANGED <<srvVars, exitVars>>

\* <-quit finds the channel empty: main blocks
BlockOnQuit ==
    /\ Alive /\ pc = "wait"
    /\ quit = <<>> /\ ~blocked
    /\ blocked' = TRUE
    /\ UNCHANGED <<notified, quit, sigLog, received, logs, clock>>
    /\ UNCHANGED <<mainVars, srvVars, exitVars>>

\* <-quit; zap.L().Info("Shutdown Server ..."); ctx, cancel := WithTimeout; defer cancel()
ReceiveQuit ==
    /\ Alive /\ pc = "wait"
    /\ quit # <<>>
    /\ received' = Append(received, Head(quit))
    /\ quit' = Tail(quit)
    /\ receivedAt' = clock
    /\ deadline' = CtxDeadline(clock)
    /\ deferred' = Append(deferred, "cancel")
    /\ logs' = logs \cup {<<"info", "Shutdown Server ...">>}
    /\ pc' = "stop"
    /\ UNCHANGED <<step, ok, attempts, failedStep, rollbackLog, ctxCancelled,
                   routesBuilt, stopCalls, gpcAtStop, shutdownErr, clock>>
    /\ UNCHANGED <<notified, sigLog, blocked>>
    /\ UNCHANGED <<srvVars, exitVars>>

\* srv.Shutdown(ctx) is called: the server stops accepting
ShutdownCall ==
    /\ Alive /\ pc = "stop"
    /\ inShutdown' = TRUE
    /\ stopCalls' = stopCalls + 1
    /\ gpcAtStop' = gpc
    /\ pc' = "stopping"
    /\ UNCHANGED <<step, ok, attempts, failedStep, deferred, rollbackLog, ctxCancelled,
                   routesBuilt, receivedAt, deadline, shutdownErr, clock, logs>>
    /\ UNCHANGED <<gpc, srvErr, serveCalls, inflight, reqFailed>>
    /\ UNCHANGED <<sigVars, exitVars>>

\* what follows the return of srv.Shutdown with err
AfterShutdown(err) ==
    /\ shutdownErr' = err
    /\ IF ShutdownFailed(err)
       THEN \* zap.L().Fatal: logs and calls os.Exit(1); deferred calls do not run
            /\ logs' = logs \cup {<<"fatal", "Server Shutdown: ">>}
            /\ pc' = "exited"
            /\ exitKind' = "shutdownFatal"
            /\ exitCode' = 1
       ELSE \* zap.L().Info("Server exiting"); main returns
            /\ logs' = logs \cup {<<"info", "Server exiting">>}
            /\ pc' = PcAfterShutdown(quit)
            /\ UNCHANGED exitVars
    /\ UNCHANGED <<step, ok, attempts, failedStep, deferred, rollbackLog, ctxCancelled,
                   routesBuilt, receivedAt, deadline, stopCalls, gpcAtStop, clock>>
    /\ UNCHANGED <<srvVars, sigVars>>

\* srv.Shutdown returns nil: every connection is idle
ShutdownDone ==
    /\ Alive /\ pc = "stopping"
    /\ inflight = 0
    /\ AfterShutdown("nil")

\* srv.Shutdown returns ctx.Err(): the deadline passed with requests in flight
ShutdownTimedOut ==
    /\ Alive /\ pc = "stopping"
    /\ inflight > 0
    /\ clock >= deadline
    /\ AfterShutdown("DeadlineExceeded")

\* main has returned: the next deferred call runs
RunDeferred ==
    /\ Alive /\ pc = "unwinding"
    /\ deferred # <<>>
    /\ LET i == NextDeferred(deferred)
           f == deferred[i]
       IN /\ deferred' = [j \in 1..(Len(deferred) - 1) |->
                             IF j < i THEN deferred[j] ELSE deferred[j + 1]]
          /\ IF f = "cancel"
             THEN ctxCancelled' = TRUE /\ UNCHANGED rollbackLog
             ELSE rollbackLog' = Append(rollbackLog, f) /\ UNCHANGED ctxCancelled
    /\ UNCHANGED <<pc, step, ok, attempts, failedStep, routesBuilt, receivedAt,
                   deadline, stopCalls, gpcAtStop, shutdownErr, clock, logs>>
    /\ UNCHANGED <<srvVars, sigVars, exitVars>>

\* every deferred call has run: the process ends with the status of a
\* return from main
MainReturn ==
    /\ Alive /\ pc = "unwinding"
    /\ deferred = <<>>
    /\ pc' = "exited"
    /\ exitKind' = IF failedStep # 0 THEN "initFail" ELSE "clean"
    /\ exitCode' = 0
    /\ UNCHANGED <<step, ok, attempts, failedStep, deferred, rollbackLog, ctxCancelled,
                   routesBuilt, receivedAt, deadline, stopCalls, gpcAtStop, shutdownErr, clock, logs>>
    /\ UNCHANGED <<srvVars, sigVars>>

\* ------------------------------------------------------------- goroutine
\* what follows the return of srv.ListenAndServe with err
AfterServe(err) ==
    /\ srvErr' = err
    /\ gpc' = "returned"
    /\ IF IsFatalServeErr(err)
       THEN \* log.Fatalf: prints and calls os.Exit(1)
            /\ logs' = logs \cup {<<"fatal", "listen">>}
            /\ pc' = "exited"
            /\ exitKind' = "serveFatal"
            /\ exitCode' = 1
       ELSE UNCHANGED <<logs, pc, exitVars>>
    /\ UNCHANGED <<step, ok, attempts, failedStep, deferred, rollbackLog, ctxCancelled,
                   routesBuilt, receivedAt, deadline, stopCalls, gpcAtStop, shutdownErr, clock>>
    /\ UNCHANGED <<inShutdown, inflight, reqFailed>>
    /\ UNCHANGED sigVars

\* ListenAndServe starts: it returns ErrServerClosed when the server is
\* already shutting down, otherwise it goes on to bind
ServeBegin ==
    /\ Alive /\ gpc = "spawned"
    /\ serveCalls' = serveCalls + 1
    /\ IF inShutdown
       THEN AfterServe("ErrServerClosed")
       ELSE /\ gpc' = "binding"
            /\ UNCHANGED <<srvErr, inShutdown, inflight, reqFailed, logs, clock>>
            /\ UNCHANGED <<mainVars, sigVars, exitVars>>

\* net.Listen succeeds: Serve registers the listener, or returns
\* ErrServerClosed when Shutdown was called in between
BindOk ==
    /\ Alive /\ gpc = "binding"
    /\ UNCHANGED serveCalls
    /\ IF inShutdown
       THEN AfterServe("ErrServerClosed")
       ELSE /\ gpc' = "serving"
            /\ UNCHANGED <<srvErr, inShutdown, inflight, reqFailed, logs, clock>>
            /\ UNCHANGED <<mainVars, sigVars, exitVars>>

\* net.Listen fails (address already in use)
BindFail ==
    /\ Alive /\ gpc = "binding"
    /\ UNCHANGED serveCalls
    /\ AfterServe("bind")

\* Accept fails while serving: ErrServerClosed after Shutdown, the error
\* itself otherwise
ServeReturn ==
    /\ Alive /\ gpc = "serving"
    /\ UNCHANGED serveCalls
    /\ AfterServe(IF inShutdown THEN "ErrServerClosed" ELSE "accept")

\* a connection is accepted and its request starts
AcceptRequest ==
    /\ Alive /\ gpc = "serving" /\ ~inShutdown
    /\ inflight < MaxInflight
    /\ inflight' = inflight + 1
    /\ UNCHANGED <<gpc, srvErr, serveCalls, inShutdown, reqFailed, logs, clock>>
    /\ UNCHANGED <<mainVars, sigVars, exitVars>>

\* a request ends, with or without a request-level error
FinishRequest ==
    /\ Alive /\ inflight > 0
    /\ inflight' = inflight - 1
    /\ \E failed \in BOOLEAN : reqFailed' = (reqFailed \/ failed)
    /\ UNCHANGED <<gpc, srvErr, serveCalls, inShutdown, logs, clock>>
    /\ UNCHANGED <<mainVars, sigVars, exitVars>>

\* ----------------------------------------------------------- environment
\* a signal registered with Notify arrives and fits in the channel
SignalForwarded ==
    /\ Alive /\ Len(sigLog) < MaxSignals
    /\ notified /\ CanSend(quit, blocked /\ pc = "wait")
    /\ \E s \in NotifySet :
          /\ sigLog' = Append(sigLog, s)
          /\ quit' = Append(quit, s)
    /\ UNCHANGED <<notified, received, blocked, logs, clock>>
    /\ UNCHANGED <<mainVars, srvVars, exitVars>>

\* a signal registered with Notify arrives while the channel is full: the
\* send does not block and the signal is dropped
SignalDropped ==
    /\ Alive /\ Len(sigLog) < MaxSignals
    /\ notified /\ ~CanSend(quit, blocked /\ pc = "wait")
    /\ \E s \in NotifySet : sigLog' = Append(sigLog, s)
    /\ UNCHANGED <<notified, quit, received, blocked, logs, clock>>
    /\ UNCHANGED <<mainVars, srvVars, exitVars>>

\* a signal that is not (or not yet) registered arrives: the default
\* disposition ends the process at once
SignalKills ==
    /\ Alive /\ Len(sigLog) < MaxSignals
    /\ \E s \in Signals :
          /\ ~(notified /\ s \in NotifySet)
          /\ sigLog' = Append(sigLog, s)
    /\ pc' = "exited"
    /\ exitKind' = "killed"
    /\ exitCode' = 2
    /\ UNCHANGED <<step, ok, attempts, failedStep, deferred, rollbackLog, ctxCancelled,
                   routesBuilt, receivedAt, deadline, stopCalls, gpcAtStop, shutdownErr, clock, logs>>
    /\ UNCHANGED <<notified, quit, received, blocked>>
    /\ UNCHANGED srvVars

\* a second passes; time always runs on to the deadline of the shutdown
\* context
Tick ==
    /\ Alive
    /\ clock < MaxClock \/ (deadline >= 0 /\ clock < deadline)
    /\ clock' = clock + 1
    /\ UNCHANGED <<mainVars, srvVars, sigVars, exitVars, logs>>

Next ==
    \/ InitOk
    \/ InitFail
    \/ RoutesSetup
    \/ Spawn
    \/ Notify
    \/ BlockOnQuit
    \/ ReceiveQuit
    \/ ShutdownCall
    \/ ShutdownDone
    \/ ShutdownTimedOut
    \/ RunDeferred
    \/ MainReturn
    \/ ServeBegin
    \/ BindOk
    \/ BindFail
    \/ ServeReturn
    \/ AcceptRequest
    \/ FinishRequest
    \/ SignalForwarded
    \/ SignalDropped
    \/ SignalKills
    \/ Tick

Spec == Init /\ [][Next]_vars

\* the steps of main from the read of quit to the return: the main goroutine
\* runs whenever it can
MainShutdownStep ==
    \/ ReceiveQuit
    \/ ShutdownCall
    \/ ShutdownDone
    \/ ShutdownTimedOut
    \/ RunDeferred
    \/ MainReturn

\* main is scheduled whenever it can take a step and time passes
FairSpec == Spec /\ WF_vars(MainShutdownStep) /\ WF_vars(Tick)


\* ------------------------------------------------------------ properties
IsPrefix(s, t) == Len(s) <= Len(t) /\ \A i \in 1..Len(s) : s[i] = t[i]

Occurrences(s, x) == Cardinality({i \in 1..Len(s) : s[i] = x})

Terminated == exitKind # "none"

\* C1: when init step k is the first to fail, the clean-ups run are at every
\* moment a prefix of the clean-ups registered by steps 1..k-1 taken in
\* reverse order of registration, steps 1..k-1 are exactly the steps that
\* succeeded, and once main has returned all of them have run; no clean-up
\* of step k or of a later step runs.
C1_FailedInitRollsBackInReverse ==
    failedStep # 0 =>
        LET expected == CASE failedStep \in {1, 2} -> <<>>
                          [] failedStep = 3 -> <<"logger">>
                          [] failedStep = 4 -> <<"mysql", "logger">>
                          [] failedStep = 5 -> <<"redis", "mysql", "logger">>
                          [] OTHER -> <<"mongodb", "redis", "mysql", "logger">>
        IN /\ ok = 1..(failedStep - 1)
           /\ IsPrefix(rollbackLog, expected)
           /\ exitKind = "initFail" => rollbackLog = expected

C1_Witness ==
    /\ exitKind = "initFail"
    /\ failedStep = 5
    /\ rollbackLog = <<"redis", "mysql", "logger">>

\* C2: when srv.Shutdown has returned because the deadline passed, the
\* process ends with the timeout reported at fatal severity, a non-zero
\* status, and mongodb.Close, redis.Close, mysql.Close and the logger sync
\* all run.
C2_TimeoutStillRollsBack ==
    (Terminated /\ shutdownErr = "DeadlineExceeded") =>
        /\ <<"fatal", "Server Shutdown: ">> \in logs
        /\ exitCode # 0
        /\ rollbackLog = <<"mongodb", "redis", "mysql", "logger">>

\* C3: on the exit paths init failure, clean shutdown, shutdown timeout and
\* service start failure, the clean-up of a step has run when the process
\* ends if and only if the step's action succeeded.
C3_RollbackIffSucceeded ==
    exitKind \in {"initFail", "clean", "shutdownFatal", "serveFatal"} =>
        \A i \in {2, 3, 4, 5} : (Occurrences(rollbackLog, Steps[i]) > 0) <=> (i \in ok)

\* C4: srv.Shutdown is only called after every init step succeeded, with a
\* deadline 5 seconds after the signal was read; and when one signal was
\* delivered, srv.Shutdown returned nil and the goroutine did not abort the
\* process, the process ends with status 0, having run cancel and every
\* registered clean-up exactly once, in reverse order of registration.
C4_CleanShutdown ==
    /\ stopCalls > 0 =>
          /\ ok = 1..7
          /\ receivedAt >= 0
          /\ deadline = receivedAt + 5
    /\ (Terminated /\ shutdownErr = "nil" /\ Len(sigLog) = 1 /\ exitKind # "serveFatal") =>
          /\ exitCode = 0
          /\ stopCalls = 1
          /\ ctxCancelled
          /\ rollbackLog = <<"mongodb", "redis", "mysql", "logger">>

C4_Witness ==
    /\ exitKind = "clean"
    /\ Len(sigLog) = 1
    /\ srvErr = "ErrServerClosed"
    /\ reqFailed
    /\ clock > receivedAt
    /\ clock < deadline
    /\ rollbackLog = <<"mongodb", "redis", "mysql", "logger">>

\* C5: when an init step has failed the process ends with a non-zero
\* status, and status 0 is only produced by a shutdown in which every init
\* step succeeded and srv.Shutdown returned nil.
C5_InitFailureExitsNonZero ==
    /\ (Terminated /\ failedStep # 0) => exitCode # 0
    /\ exitCode = 0 => (failedStep = 0 /\ shutdownErr = "nil")

\* C6: routes.Setup has run, or the goroutine has been launched, only when
\* every init step has succeeded and none has failed.
C6_NoPartialService ==
    (routesBuilt \/ gpc # "none" \/ serveCalls > 0 \/ inflight > 0) =>
        (ok = 1..7 /\ failedStep = 0)

C6_Witness ==
    /\ routesBuilt
    /\ gpc = "serving"
    /\ inflight > 0
    /\ ok = 1..7

\* C7: once a signal has been read from quit, no deferred clean-up runs
\* before srv.Shutdown has returned; and no clean-up ever runs while a
\* request is in flight.
C7_RollbackAfterStop ==
    /\ (received # <<>> /\ (rollbackLog # <<>> \/ ctxCancelled)) => shutdownErr # "none"
    /\ (rollbackLog # <<>> \/ pc = "unwinding") => inflight = 0

C7_Witness ==
    /\ received # <<>>
    /\ pc = "unwinding"
    /\ rollbackLog = <<"mongodb", "redis">>
    /\ shutdownErr = "nil"
    /\ clock >= 2
    /\ reqFailed

\* C8: srv.ListenAndServe is called at most once; when it returned an error
\* other than http.ErrServerClosed the process has ended with status 1 in
\* the goroutine's fatal branch; when it returned http.ErrServerClosed the
\* fatal branch is not taken.
C8_ServeErrorIsFatal ==
    /\ serveCalls <= 1
    /\ srvErr \in {"bind", "accept"} => (exitKind = "serveFatal" /\ exitCode = 1)
    /\ srvErr = "ErrServerClosed" =>
          (exitKind # "serveFatal" /\ <<"fatal", "listen">> \notin logs)
    /\ exitKind = "serveFatal" => srvErr \in {"bind", "accept"}

C8_Witness ==
    /\ srvErr = "bind"
    /\ exitKind = "serveFatal"
    /\ exitCode = 1
    /\ serveCalls = 1

\* C9: main reads at most one signal from quit and calls srv.Shutdown at
\* most once, and no clean-up runs more than once, however many signals
\* are delivered.
C9_OneTerminationRequest ==
    /\ Len(received) <= 1
    /\ stopCalls <= 1
    /\ \A i \in 1..7 : Occurrences(rollbackLog, Steps[i]) <= 1

C9_Witness ==
    /\ Len(sigLog) = 2
    /\ sigLog[2] \in {"SIGINT", "SIGTERM"}
    /\ Len(quit) = 1
    /\ stopCalls = 1
    /\ exitKind = "clean"
    /\ rollbackLog = <<"mongodb", "redis", "mysql", "logger">>

\* C10: srv.Shutdown has been called only when main has read a SIGINT or
\* SIGTERM that was delivered to the process; and the server starts
\* shutting down only in the step in which main calls srv.Shutdown, never
\* in a step that ends a request.
C10_StopOnlyOnSignal ==
    /\ [](stopCalls > 0 =>
            /\ Len(received) = 1
            /\ received[1] \in {"SIGINT", "SIGTERM"}
            /\ \E j \in 1..Len(sigLog) : sigLog[j] = received[1])
    /\ []((inShutdown \/ pc \in {"stop", "stopping"}) => received # <<>>)
    /\ [][(inShutdown' /\ ~inShutdown) =>
            (pc = "stop" /\ stopCalls' = stopCalls + 1 /\ received # <<>>
             /\ inflight' = inflight /\ reqFailed' = reqFailed)]_vars

C10_Witness ==
    /\ stopCalls = 1
    /\ inShutdown
    /\ gpc = "serving"
    /\ reqFailed
    /\ inflight > 0
    /\ received = <<"SIGTERM">>

Last(s) == s[Len(s)]

\* C11: once main has read a signal from quit, the process eventually
\* ends, when main is scheduled and time passes: srv.Shutdown returns nil
\* or returns at the deadline, and main returns or exits.
C11_ShutdownTerminates == (received # <<>>) ~> Terminated

C11_Witness ==
    /\ exitKind = "shutdownFatal"
    /\ received # <<>>
    /\ inflight > 0
    /\ clock >= deadline
    /\ clock = receivedAt + 5

\* C12: the init actions called form a prefix of the fixed order: each is
\* called at most once, only after every earlier one succeeded, and none is
\* called after the one that failed.
C12_InitActionsFormPrefix ==
    /\ \A i \in 1..7 :
          /\ attempts[i] <= 1
          /\ attempts[i] = 1 => \A j \in 1..(i - 1) : j \in ok
          /\ i \in ok => attempts[i] = 1
    /\ failedStep # 0 =>
          /\ attempts[failedStep] = 1
          /\ failedStep \notin ok
          /\ \A j \in (failedStep + 1)..7 : attempts[j] = 0

C12_Witness ==
    /\ exitKind = "initFail"
    /\ failedStep = 4
    /\ ok = {1, 2, 3}
    /\ attempts = <<1, 1, 1, 1, 0, 0, 0>>

\* C13: signal.Notify has been called only when every init step succeeded,
\* routes.Setup ran and the goroutine was launched; a signal delivered
\* before that ends the process in that very step, without entering quit,
\* without a call of srv.Shutdown and without any deferred clean-up; and
\* nothing happens once the process has ended.
C13_NoSignalHandlingDuringInit ==
    /\ [](notified => (ok = 1..7 /\ routesBuilt /\ gpc # "none"))
    /\ [][(sigLog' # sigLog /\ pc \in {"init", "setup", "spawn", "notify"}) =>
            /\ exitKind' = "killed"
            /\ quit' = <<>>
            /\ received' = <<>>
            /\ stopCalls' = 0
            /\ rollbackLog' = <<>>
            /\ deferred' = deferred]_vars
    /\ [][Alive]_vars

C13_Witness ==
    /\ exitKind = "killed"
    /\ sigLog = <<"SIGTERM">>
    /\ failedStep = 0
    /\ step = 4
    /\ deferred = <<"logger", "mysql">>
    /\ rollbackLog = <<>>
    /\ stopCalls = 0

\* C14: a SIGINT or SIGTERM delivered after signal.Notify while quit is
\* empty is put into quit, whether or not main already blocks on it; a
\* signal pending in quit stays there until main reads it; and main does
\* read it, going on to the shutdown.
C14_PendingSignalNotLost ==
    /\ [][(sigLog' # sigLog /\ notified /\ quit = <<>>
            /\ Last(sigLog') \in {"SIGINT", "SIGTERM"}) =>
                quit' = <<Last(sigLog')>>]_vars
    /\ [][(quit # <<>> /\ pc = "wait") =>
            (quit' = quit \/ (pc' = "stop" /\ received' = <<Head(quit)>>))]_vars
    /\ ((pc = "wait" /\ quit # <<>>) ~> (received # <<>> \/ Terminated))

C14_Witness ==
    /\ exitKind = "clean"
    /\ ~blocked
    /\ sigLog = <<"SIGINT">>
    /\ received = <<"SIGINT">>
    /\ rollbackLog = <<"mongodb", "redis", "mysql", "logger">>

\* C15 as stated: when srv.Shutdown was called before the goroutine
\* listened, ListenAndServe returns nothing but http.ErrServerClosed, no
\* connection is ever accepted and the goroutine's fatal branch is not
\* taken.
C15_StopBeforeListen ==
    gpcAtStop \in {"spawned", "binding"} =>
        /\ inflight = 0
        /\ gpc # "serving"
        /\ srvErr \in {"none", "ErrServerClosed"}
        /\ exitKind # "serveFatal"

\* C15 as amended: when srv.Shutdown was called before the goroutine
\* listened, no connection is ever accepted; ListenAndServe returns
\* http.ErrServerClosed and the fatal branch is not taken, unless the
\* goroutine had already entered ListenAndServe and its bind fails; and
\* when neither that nor a signal that is not registered ends the process,
\* main completes the clean shutdown with status 0.
C15_StopBeforeListenUnlessBindFails ==
    gpcAtStop \in {"spawned", "binding"} =>
        /\ inflight = 0
        /\ gpc # "serving"
        /\ srvErr \in {"none", "ErrServerClosed", "bind"}
        /\ srvErr = "bind" => gpcAtStop = "binding"
        /\ exitKind = "serveFatal" <=> srvErr = "bind"
        /\ (Terminated /\ exitKind \notin {"serveFatal", "killed"}) =>
              /\ exitKind = "clean"
              /\ exitCode = 0
              /\ rollbackLog = <<"mongodb", "redis", "mysql", "logger">>

C15_Witness ==
    /\ gpcAtStop = "binding"
    /\ srvErr = "ErrServerClosed"
    /\ exitKind = "clean"
    /\ exitCode = 0
====
